---- MODULE Spec2Model ----
(***************************************************************************)
(* Registration and approval workflow of the restaurant roster backend     *)
(* (backend/accounts): Company, User and RegistrationRequest rows in the    *)
(* database, and the request handlers register / verify-email /            *)
(* approve-registration running in one or two server workers.               *)
(*                                                                         *)
(* A handler is cut into steps at the places where the database can change  *)
(* under it: the reads of is_valid() / get() / get_object_or_404() happen   *)
(* before the handler's transaction, the writes of one transaction.atomic() *)
(* block become visible together at its commit.                             *)
(***************************************************************************)
EXTENDS Integers, Sequences, FiniteSets, TLC

VARIABLES
    accounts,   \* User table: id -> row
    requests,   \* RegistrationRequest table: sequence of rows, id = position
    userSeq,    \* next primary key of the User table (keys are never reused)
    workers,    \* number of requests the server handles at the same time
    pc,         \* per worker: the step its handler is at
    arg,        \* per worker: the HTTP request being handled
    snap,       \* per worker: the RegistrationRequest instance it holds
    user,       \* per worker: the User instance it is saving
    resp,       \* per worker: the HTTP response it gave
    log,        \* per worker: the mails its handler logged as failed
    companies,  \* Company table: set of rows, codes one character per element
    probe       \* the last form handled outside the workflow, with its outcome

vars == <<accounts, requests, userSeq, workers, pc, arg, snap, user, resp, log,
          companies, probe>>

\* the state of the forms that are no part of the registration workflow
forms == <<companies, probe>>

-----------------------------------------------------------------------------
(* Bounds of the model *)

\* RegistrationRequest rows that can be created
MaxRequests == 2
\* User rows that can be created by approvals
MaxNewUsers == 2

Procs == {"w1", "w2"}

NULL == 0

-----------------------------------------------------------------------------
(* Company table: fixed rows.  JILL01 is the seeded company, WOK02 a second *)
(* tenant, OLD03 a deactivated one.                                         *)

Companies == {"JILL01", "WOK02", "OLD03"}

CompanyActive(c) == c \in {"JILL01", "WOK02"}

\* Company codes as typed by applicants
CodeInputs == {"JILL01", "jill01", "WOK02", "OLD03"}

\* str.upper() on the codes above
upper(s) == IF s = "jill01" THEN "JILL01" ELSE s

\* E-mail addresses as typed by applicants
EmailInputs == {"ann@x.nl", "Ann@x.nl", "bob@x.nl"}

\* str.lower() on the addresses and names above
lower(s) ==
    CASE s = "Ann@x.nl" -> "ann@x.nl"
      [] s = "Jan" -> "jan"
      [] s = "Bob" -> "bob"
      [] s = "Bakker" -> "bakker"
      [] OTHER -> s

\* The rest of the form is filled in per applicant.  Ann gives the same name,
\* Jan Bakker, at every tenant she applies to, so that the usernames of her
\* accounts collide; Bob is Bob Bakker.  Ann applies as server, Bob as
\* manager.
FirstName(email) == IF lower(email) = "bob@x.nl" THEN "Bob" ELSE "Jan"
LastName(email) == "Bakker"
Function(email) == IF lower(email) = "bob@x.nl" THEN "manager" ELSE "server"

PasswordInputs == {"Abcd1234", "abc12345"}

\* Phone numbers, one character per element
PhoneInputs ==
    { <<"0","6","-","1","2","3","4","5","6","7","8">>,
      <<"0","5","1","2","3","4","5","6","7","8">> }

-----------------------------------------------------------------------------
(* Field validation of RegistrationRequestSerializer *)

Digits == {"0","1","2","3","4","5","6","7","8","9"}

NotSeparator(c) == c \notin {" ", "-"}

\* re.sub(r"[\s-]", "", value)
cleaned_phone(value) == SelectSeq(value, NotSeparator)

startswith(s, prefix) ==
    /\ Len(s) >= Len(prefix)
    /\ SubSeq(s, 1, Len(prefix)) = prefix

\* 6\d{8}$
MobileTail(s) ==
    /\ Len(s) = 9
    /\ s[1] = "6"
    /\ \A i \in 2..9 : s[i] \in Digits

\* re.match(r"^(\+31|0031|0)6\d{8}$", cleaned_phone)
phone_matches(c) ==
    \/ startswith(c, <<"+","3","1">>) /\ MobileTail(SubSeq(c, 4, Len(c)))
    \/ startswith(c, <<"0","0","3","1">>) /\ MobileTail(SubSeq(c, 5, Len(c)))
    \/ startswith(c, <<"0">>) /\ MobileTail(SubSeq(c, 2, Len(c)))

\* max_length of RegistrationRequest.phone, checked on the raw input
PhoneMaxLength == 15

phone_ok(value) ==
    /\ Len(value) <= PhoneMaxLength
    /\ phone_matches(cleaned_phone(value))

\* the value validate_phone returns for an accepted input
validate_phone(value) ==
    LET c == cleaned_phone(value) IN
    IF startswith(c, <<"0","6">>) THEN <<"+","3","1">> \o Tail(c)
    ELSE IF startswith(c, <<"0","0","3","1">>) THEN <<"+">> \o SubSeq(c, 3, Len(c))
    ELSE IF startswith(c, <<"+","3","1">>) THEN c
    ELSE value

\* validate_password on the passwords above: "abc12345" has no uppercase letter
password_ok(value) == value = "Abcd1234"

\* User.objects.filter(email=value.lower()).exists()
email_taken(value) ==
    \E u \in DOMAIN accounts : accounts[u].email = lower(value)

email_ok(value) == ~email_taken(value)

\* Company.objects.get(company_code=value.upper(), is_active=True) succeeds
company_code_ok(value) ==
    /\ upper(value) \in Companies
    /\ CompanyActive(upper(value))

\* the duplicate check left out of validate()
existing_request_off(email, company) == FALSE

\* RegistrationRequest.objects.filter(email=, company=, status="pending").exists()
existing_request(email, company) ==
    \E i \in 1..Len(requests) :
        /\ requests[i].email = email
        /\ requests[i].company = company
        /\ requests[i].status = "pending"

\* is_valid(): the field validators, then the cross-field validate()
is_valid(data) ==
    /\ email_ok(data.email)
    /\ phone_ok(data.phone)
    /\ password_ok(data.password)
    /\ company_code_ok(data.company_code)
    /\ data.password = data.password_confirm
    /\ ~existing_request(lower(data.email), upper(data.company_code))

\* serializer.validated_data
validated_data(data) ==
    [email |-> lower(data.email),
     phone |-> validate_phone(data.phone),
     function |-> data.function,
     company_code |-> upper(data.company_code),
     password |-> data.password]

-----------------------------------------------------------------------------
(* The Company table, character by character *)

LowerCase ==
    <<"a","b","c","d","e","f","g","h","i","j","k","l","m",
      "n","o","p","q","r","s","t","u","v","w","x","y","z">>

UpperCase ==
    <<"A","B","C","D","E","F","G","H","I","J","K","L","M",
      "N","O","P","Q","R","S","T","U","V","W","X","Y","Z">>

\* str.upper() on a string given one character per element
upper_chars(s) ==
    [i \in 1..Len(s) |->
        IF \E k \in 1..Len(LowerCase) : LowerCase[k] = s[i]
        THEN UpperCase[CHOOSE k \in 1..Len(LowerCase) : LowerCase[k] = s[i]]
        ELSE s[i]]

\* the characters of the company codes of the workflow above
Chars(c) ==
    CASE c = "JILL01" -> <<"J","I","L","L","0","1">>
      [] c = "WOK02" -> <<"W","O","K","0","2">>
      [] c = "OLD03" -> <<"O","L","D","0","3">>

\* a Company row
Company(name, code, active) ==
    [name |-> name, company_code |-> code, is_active |-> active]

\* the rows of the three companies of the workflow
SeedCompanies ==
    { Company(<<<<"J","i","l","l">>, <<"S","u","s","h","i">>>>, Chars("JILL01"), CompanyActive("JILL01")),
      Company(<<<<"W","o","k">>, <<"T","w","o">>>>, Chars("WOK02"), CompanyActive("WOK02")),
      Company(<<<<"O","l","d">>, <<"I","n","n">>>>, Chars("OLD03"), CompanyActive("OLD03")) }

\* no form handled yet
NoProbe ==
    [op |-> "", input |-> <<>>, name |-> <<>>, status |-> 0, output |-> <<>>,
     actor |-> 0, rows |-> {}]

-----------------------------------------------------------------------------
(* Rows *)

Now == 1

NoRow ==
    [id |-> 0, email |-> "", first_name |-> "", last_name |-> "", phone |-> <<>>,
     function |-> "", company |-> "", company_code_entered |-> "",
     status |-> "", created_at |-> 0, reviewed_by |-> NULL, reviewed_at |-> NULL,
     rejection_reason |-> "", verification_token |-> 0, email_verified |-> FALSE,
     \* the attribute _temp_password of an instance; it is no column
     temp_password |-> ""]

NoUser ==
    [id |-> 0, username |-> "", email |-> "", first_name |-> "", last_name |-> "",
     phone |-> <<>>, company |-> "", role |-> "", function |-> "",
     employee_number |-> "", password |-> "", is_approved |-> FALSE,
     approved_by |-> NULL, approved_at |-> NULL, email_verified |-> FALSE,
     is_superuser |-> FALSE, is_staff |-> FALSE, registration |-> 0]

NoArg ==
    [op |-> "", email |-> "", phone |-> <<>>, function |-> "", company_code |-> "",
     password |-> "", password_confirm |-> "", token |-> 0, caller |-> 0,
     registration_id |-> 0, status |-> "", rejection_reason |-> ""]

NoResp == [status |-> 0, new_user_id |-> 0, employee_number |-> "", results |-> <<>>]

HTTP_200_OK == 200
HTTP_201_CREATED == 201
HTTP_400_BAD_REQUEST == 400
HTTP_403_FORBIDDEN == 403
HTTP_404_NOT_FOUND == 404
HTTP_500_INTERNAL_SERVER_ERROR == 500

Response(code) == [NoResp EXCEPT !.status = code]

\* f"{n:04d}"
Pad4(n) ==
    IF n < 10 THEN "000" \o ToString(n)
    ELSE IF n < 100 THEN "00" \o ToString(n)
    ELSE IF n < 1000 THEN "0" \o ToString(n)
    ELSE ToString(n)

\* the count without the filter on the company
last_number_all(company) == Cardinality(DOMAIN accounts)

\* User.objects.filter(company=, employee_number__isnull=False).count()
last_number(company) ==
    Cardinality({u \in DOMAIN accounts : accounts[u].company = company})

\* the employee number User.save() generates for a row of the company
employee_number(company) == company \o "-" \o Pad4(last_number(company) + 1)

\* a save() that generates the number at every call
User_save_always(row) ==
    [row EXCEPT !.employee_number = employee_number(row.company)]

\* User.save(): if not self.employee_number: generate it
User_save(row) ==
    IF row.employee_number = ""
    THEN [row EXCEPT !.employee_number = employee_number(row.company)]
    ELSE row

SeedUser(id, username, email, company, role, function, n, approved, staff) ==
    [NoUser EXCEPT !.id = id, !.username = username, !.email = email,
        !.first_name = username, !.last_name = username,
        !.phone = <<"+","3","1","6","1","2","3","4","5","6","7","8">>,
        !.company = company, !.role = role, !.function = function,
        !.employee_number = company \o "-" \o Pad4(n), !.password = "seed",
        !.is_approved = approved, !.email_verified = TRUE, !.is_staff = staff]

\* The User table: the manager and the employee that setup_testdata creates,
\* a manager account that nobody approved yet, and the owner of the second
\* tenant.  The test employee and the unapproved manager were given
\* access to the administration site (is_staff).
SeedUsers ==
    <<SeedUser(1, "manager.jill", "manager@jillsushi.nl", "JILL01", "manager", "manager", 1, TRUE, FALSE),
      SeedUser(2, "test.werknemer", "werknemer@jillsushi.nl", "JILL01", "employee", "server", 2, TRUE, TRUE),
      SeedUser(3, "new.manager", "new@jillsushi.nl", "JILL01", "manager", "manager", 3, FALSE, TRUE),
      SeedUser(4, "chef.wok", "chef@wok.nl", "WOK02", "owner", "manager", 1, TRUE, FALSE)>>

Init ==
    /\ accounts = [u \in 1..Len(SeedUsers) |-> SeedUsers[u]]
    /\ requests = <<>>
    /\ userSeq = Len(SeedUsers) + 1
    /\ workers = Cardinality(Procs)
    /\ pc = [p \in Procs |-> "idle"]
    /\ arg = [p \in Procs |-> NoArg]
    /\ snap = [p \in Procs |-> NoRow]
    /\ user = [p \in Procs |-> NoUser]
    /\ resp = [p \in Procs |-> NoResp]
    /\ log = [p \in Procs |-> {}]
    /\ companies = SeedCompanies
    /\ probe = NoProbe

\* One request at a time: a single synchronous worker
InitSeq ==
    /\ accounts = [u \in 1..Len(SeedUsers) |-> SeedUsers[u]]
    /\ requests = <<>>
    /\ userSeq = Len(SeedUsers) + 1
    /\ workers = 1
    /\ pc = [p \in Procs |-> "idle"]
    /\ arg = [p \in Procs |-> NoArg]
    /\ snap = [p \in Procs |-> NoRow]
    /\ user = [p \in Procs |-> NoUser]
    /\ resp = [p \in Procs |-> NoResp]
    /\ log = [p \in Procs |-> {}]
    /\ companies = SeedCompanies
    /\ probe = NoProbe

-----------------------------------------------------------------------------
(* Scheduling *)

Busy == {q \in Procs : pc[q] # "idle"}

\* Responses are observed one at a time: a handler ends after the previous
\* response was taken off the wire.
NoneDone == \A q \in Procs : pc[q] # "done"

\* position of a worker in the pool
Rank(p) == IF p = "w1" THEN 1 ELSE 2

\* a worker takes the next HTTP request: the first idle worker of the pool
CanStart(p) ==
    /\ pc[p] = "idle"
    /\ \A q \in Procs : Rank(q) < Rank(p) => pc[q] # "idle"
    /\ NoneDone
    /\ Cardinality(Busy) < workers

\* A request that is answered from the handler's first reads writes nothing,
\* and its answer depends on the tables alone: it is served while no other
\* handler is open.
Quiet(p) == \A q \in Procs \ {p} : pc[q] = "idle"

Refuse(p, code) ==
    /\ Quiet(p)
    /\ pc' = [pc EXCEPT ![p] = "done"]
    /\ resp' = [resp EXCEPT ![p] = Response(code)]

\* the handler of p returns its response
Respond(p, r) ==
    /\ pc' = [pc EXCEPT ![p] = "done"]
    /\ resp' = [resp EXCEPT ![p] = r]

\* A profile update and the creation of an account in the administration
\* site are one save() each; they are served between the workflow requests,
\* while no handler is open.
AllIdle == \A q \in Procs : pc[q] = "idle"

\* The row lock an UPDATE takes until its transaction commits: the row is not
\* locked by another worker's open transaction.
RowFree(p, id) ==
    \A q \in Procs \ {p} : ~(pc[q] = "approve_commit" /\ snap[q].id = id)

-----------------------------------------------------------------------------
(* Notification mails *)

\* send_mail(..., fail_silently=False) delivers or raises: the mails of a
\* handler whose send_mail() raised
MailFailures(mails) == SUBSET mails

\* a helper whose exception reaches the handler
mail_helper_raises(failed) == failed = {}

\* try: send_mail(...) except Exception as e: logger.error(...): the helper
\* returns normally, whether the mail went out or not
mail_helper_returns(failed) == TRUE

\* _notify_managers: managers.exists()
managers_exist(company) ==
    \E u \in DOMAIN accounts :
        /\ accounts[u].company = company
        /\ accounts[u].role \in {"manager", "owner"}
        /\ accounts[u].is_approved

\* the mails RegistrationRequestView.post sends after serializer.save()
register_mails(company) ==
    {"verification"} \cup (IF managers_exist(company) THEN {"managers"} ELSE {})

-----------------------------------------------------------------------------
(* POST /register/ *)

\* a form that passes the field validators
Form(email, code) ==
    [NoArg EXCEPT !.op = "register", !.email = email,
        !.phone = <<"0","6","-","1","2","3","4","5","6","7","8">>,
        !.function = Function(email), !.company_code = code,
        !.password = "Abcd1234", !.password_confirm = "Abcd1234"]

\* the forms applicants post: Ann and Bob at the first tenant, Ann also at
\* the second and at the closed one, and for one of them a wrong phone
\* number, a weak password and a wrong confirmation
RegisterInputs ==
    {Form("ann@x.nl", "JILL01"), Form("Ann@x.nl", "jill01"), Form("bob@x.nl", "JILL01"),
     Form("ann@x.nl", "WOK02"), Form("ann@x.nl", "OLD03")}
    \cup {[Form("ann@x.nl", "JILL01") EXCEPT !.phone = ph] : ph \in PhoneInputs}
    \cup {[Form("ann@x.nl", "JILL01") EXCEPT !.password = pw, !.password_confirm = pc2] :
              pw \in PasswordInputs, pc2 \in PasswordInputs}

\* str(uuid.uuid4()): a value that no stored row carries
uuid4 == Len(requests) + 1

\* the instance RegistrationRequest.objects.create() is about to insert
new_request(data) ==
    LET v == validated_data(data) IN
    [NoRow EXCEPT !.email = v.email,
        !.first_name = FirstName(v.email), !.last_name = LastName(v.email),
        !.phone = v.phone, !.function = v.function, !.company = v.company_code,
        !.company_code_entered = v.company_code, !.status = "pending",
        !.temp_password = v.password]

\* a table without the unique_together constraint
unique_together_off(row) == TRUE

\* a constraint that counts the pending rows only
unique_together_pending(row) ==
    \A i \in 1..Len(requests) :
        ~(/\ requests[i].email = row.email
          /\ requests[i].company = row.company
          /\ requests[i].status = "pending")

\* unique_together = ["email", "company"]
unique_together_ok(row) ==
    \A i \in 1..Len(requests) :
        ~(requests[i].email = row.email /\ requests[i].company = row.company)

\* verification_token: unique=True
unique_token_ok(row) ==
    \A i \in 1..Len(requests) :
        requests[i].verification_token # row.verification_token

\* rows being inserted by open register handlers
Creating == {q \in Procs : pc[q] = "register_save"}

\* serializer.is_valid(): 400 with the field errors, or on to the transaction
Register_is_valid(p, data) ==
    /\ CanStart(p)
    /\ Len(requests) + Cardinality(Creating) < MaxRequests
    /\ arg' = [arg EXCEPT ![p] = data]
    /\ IF is_valid(data)
       THEN /\ pc' = [pc EXCEPT ![p] = "register_save"]
            /\ snap' = [snap EXCEPT ![p] = new_request(data)]
            /\ UNCHANGED resp
       ELSE /\ Refuse(p, HTTP_400_BAD_REQUEST)
            /\ UNCHANGED snap
    /\ UNCHANGED <<accounts, requests, userSeq, workers, user, log>>
    /\ UNCHANGED forms

\* with transaction.atomic(): serializer.save(), the two mails, 201;
\* an IntegrityError of the INSERT is caught and answered with 500.  The
\* INSERT stores the columns; _temp_password stays on the handler's instance.
Register_save(p) ==
    /\ pc[p] = "register_save"
    /\ NoneDone
    /\ \E failed \in MailFailures(register_mails(snap[p].company)) :
        LET row == [snap[p] EXCEPT !.id = Len(requests) + 1,
                        !.created_at = Len(requests) + 1,
                        !.verification_token = uuid4] IN
        IF unique_together_ok(row) /\ unique_token_ok(row) /\ mail_helper_returns(failed)
        THEN /\ requests' = Append(requests, [row EXCEPT !.temp_password = ""])
             /\ snap' = [snap EXCEPT ![p] = row]
             /\ log' = [log EXCEPT ![p] = failed]
             /\ Respond(p, Response(HTTP_201_CREATED))
        ELSE /\ Respond(p, Response(HTTP_500_INTERNAL_SERVER_ERROR))
             /\ UNCHANGED <<requests, snap, log>>
    /\ UNCHANGED <<accounts, userSeq, workers, arg, user>>
    /\ UNCHANGED forms

-----------------------------------------------------------------------------
(* POST /verify-email/<token>/ *)

TokenInputs == 1..MaxRequests

\* the lookup without status="pending"
get_by_token_any_status(token) ==
    {i \in 1..Len(requests) : requests[i].verification_token = token}

\* the lookup with email_verified=False added
get_by_token_unverified(token) ==
    {i \in 1..Len(requests) :
        /\ requests[i].verification_token = token
        /\ requests[i].status = "pending"
        /\ ~requests[i].email_verified}

\* RegistrationRequest.objects.get(verification_token=token, status="pending")
get_by_token(token) ==
    {i \in 1..Len(requests) :
        /\ requests[i].verification_token = token
        /\ requests[i].status = "pending"}

verify_email_get(p, token) ==
    /\ CanStart(p)
    /\ arg' = [arg EXCEPT ![p] = [NoArg EXCEPT !.op = "verify", !.token = token]]
    /\ IF get_by_token(token) = {}
       THEN /\ Refuse(p, HTTP_404_NOT_FOUND)
            /\ UNCHANGED snap
       ELSE /\ \E i \in get_by_token(token) :
                 snap' = [snap EXCEPT ![p] = requests[i]]
            /\ pc' = [pc EXCEPT ![p] = "verify_save"]
            /\ UNCHANGED resp
    /\ UNCHANGED <<accounts, requests, userSeq, workers, user, log>>
    /\ UNCHANGED forms

\* registration_request.email_verified = True; registration_request.save():
\* save() writes every field of the instance
verify_email_save(p) ==
    /\ pc[p] = "verify_save"
    /\ NoneDone
    /\ RowFree(p, snap[p].id)
    /\ snap' = [snap EXCEPT ![p].email_verified = TRUE]
    /\ requests' = [requests EXCEPT ![snap[p].id] = snap'[p]]
    /\ Respond(p, Response(HTTP_200_OK))
    /\ UNCHANGED <<accounts, userSeq, workers, arg, user, log>>
    /\ UNCHANGED forms

-----------------------------------------------------------------------------
(* POST /approve-registration/<id>/ *)

\* the bodies callers post: {status, rejection_reason}
BodyInputs == {<<"approved", "">>, <<"rejected", "geen vacature">>}

\* the bodies the managers of the first tenant also post: no reason, a status
\* that is no decision, no status at all (MISSING), an approval with a reason
BadBodyInputs ==
    {<<"rejected", "">>, <<"pending", "">>, <<"MISSING", "">>, <<"approved", "welkom">>}
BadBodyCallers ==
    {u \in DOMAIN accounts : accounts[u].username \in {"manager.jill", "new.manager"}}
IdInputs == 1..MaxRequests

is_manager_or_above(u) == accounts[u].role \in {"manager", "owner"}

\* the property without "and self.is_approved"
can_approve_users_role_only(u) == accounts[u].role \in {"manager", "owner"}

can_approve_users(u) ==
    /\ accounts[u].role \in {"manager", "owner"}
    /\ accounts[u].is_approved

\* the lookup without email_verified=True
get_object_unverified(id, company) ==
    {i \in 1..Len(requests) :
        /\ i = id
        /\ requests[i].company = company
        /\ requests[i].status = "pending"}

\* the lookup without company=request.user.company
get_object_any_company(id, company) ==
    {i \in 1..Len(requests) :
        /\ i = id
        /\ requests[i].status = "pending"
        /\ requests[i].email_verified}

\* get_object_or_404(RegistrationRequest, id=, company=, status="pending",
\*                   email_verified=True)
get_object(id, company) ==
    {i \in 1..Len(requests) :
        /\ i = id
        /\ requests[i].company = company
        /\ requests[i].status = "pending"
        /\ requests[i].email_verified}

\* the serializer without its validate()
approval_is_valid_no_reason(data) ==
    data.status \in {"approved", "rejected", "MISSING"}

\* RegistrationApprovalSerializer.is_valid()
approval_is_valid(data) ==
    /\ data.status \in {"approved", "rejected", "MISSING"}
    /\ ~(data.status = "rejected" /\ data.rejection_reason = "")

\* the function taken for the role
role_mapping_identity(function) == function

\* role_mapping.get(registration_request.function, "employee")
role_mapping(function) == IF function = "manager" THEN "manager" ELSE "employee"

\* a generation of usernames that never looks at the table
username_exists_off(username) == FALSE

\* User.objects.filter(username=username).exists()
username_exists(username) ==
    \E u \in DOMAIN accounts : accounts[u].username = username

\* while User.objects.filter(username=username).exists():
\*     username = f"{base_username}{counter}"; counter += 1
RECURSIVE next_username(_, _, _)
next_username(base_username, username, counter) ==
    IF username_exists(username)
    THEN next_username(base_username, base_username \o ToString(counter), counter + 1)
    ELSE username

\* getattr(registration_request, "_temp_password", "TempPassword123!")
temp_password(row) ==
    IF row.temp_password # "" THEN row.temp_password ELSE "TempPassword123!"

\* _create_user_account(): the User instance create_user() saves
create_user_account(row, approver) ==
    LET base_username == lower(row.first_name) \o "." \o lower(row.last_name) IN
    User_save([NoUser EXCEPT
        !.username = next_username(base_username, base_username, 1),
        !.email = row.email, !.first_name = row.first_name,
        !.last_name = row.last_name, !.phone = row.phone,
        !.company = row.company, !.role = role_mapping(row.function),
        !.function = row.function, !.password = temp_password(row),
        !.is_approved = TRUE, !.approved_by = approver, !.approved_at = Now,
        !.email_verified = TRUE, !.registration = row.id])

\* the unique columns and foreign keys of the INSERT into the User table
user_insert_ok(row) ==
    /\ \A u \in DOMAIN accounts :
          /\ accounts[u].username # row.username
          /\ accounts[u].employee_number # row.employee_number
    /\ row.approved_by = NULL \/ row.approved_by \in DOMAIN accounts

\* approvals that may still add a User row
Approving ==
    {q \in Procs : pc[q] \in {"approve_tx", "approve_commit"} /\ arg[q].status = "approved"}

NewUsers == userSeq - (Len(SeedUsers) + 1)

\* the permission check, the lookup and the serializer
ApproveRegistration_post(p, caller, id, status, reason) ==
    /\ CanStart(p)
    /\ caller \in DOMAIN accounts
    /\ status = "approved" => NewUsers + Cardinality(Approving) < MaxNewUsers
    /\ arg' = [arg EXCEPT ![p] = [NoArg EXCEPT !.op = "approve", !.caller = caller,
                    !.registration_id = id, !.status = status,
                    !.rejection_reason = reason]]
    /\ IF ~can_approve_users(caller)
       THEN /\ Refuse(p, HTTP_403_FORBIDDEN)
            /\ UNCHANGED snap
       ELSE IF get_object(id, accounts[caller].company) = {}
       THEN /\ Refuse(p, HTTP_404_NOT_FOUND)
            /\ UNCHANGED snap
       ELSE IF ~approval_is_valid(arg'[p])
       THEN /\ Refuse(p, HTTP_400_BAD_REQUEST)
            /\ UNCHANGED snap
       ELSE IF status = "MISSING"
       \* validated_data["status"] raises KeyError inside the try block
       THEN /\ Refuse(p, HTTP_500_INTERNAL_SERVER_ERROR)
            /\ UNCHANGED snap
       ELSE /\ snap' = [snap EXCEPT ![p] = requests[id]]
            /\ pc' = [pc EXCEPT ![p] = "approve_tx"]
            /\ UNCHANGED resp
    /\ UNCHANGED <<accounts, requests, userSeq, workers, user, log>>
    /\ UNCHANGED forms

\* a handler that stores the reason of the body with every decision
reviewed_with_reason(row, status, caller, reason) ==
    [row EXCEPT !.status = status, !.reviewed_by = caller, !.reviewed_at = Now,
        !.rejection_reason = reason]

\* the fields the handler sets on its instance before save()
reviewed(row, status, caller, reason) ==
    [row EXCEPT !.status = status, !.reviewed_by = caller, !.reviewed_at = Now,
        !.rejection_reason = IF status = "rejected" THEN reason ELSE row.rejection_reason]

\* status == "rejected": save() and commit; the rejection mail
ApproveRegistration_reject(p) ==
    /\ pc[p] = "approve_tx"
    /\ NoneDone
    /\ arg[p].status = "rejected"
    /\ RowFree(p, snap[p].id)
    /\ \E failed \in MailFailures({"rejection"}) :
        IF arg[p].caller \in DOMAIN accounts /\ mail_helper_returns(failed)
        THEN /\ snap' = [snap EXCEPT ![p] =
                     reviewed(snap[p], "rejected", arg[p].caller, arg[p].rejection_reason)]
             /\ requests' = [requests EXCEPT ![snap[p].id] = snap'[p]]
             /\ log' = [log EXCEPT ![p] = failed]
             /\ Respond(p, Response(HTTP_200_OK))
        ELSE /\ Respond(p, Response(HTTP_500_INTERNAL_SERVER_ERROR))
             /\ UNCHANGED <<requests, snap, log>>
    /\ UNCHANGED <<accounts, userSeq, workers, arg, user>>
    /\ UNCHANGED forms

\* status == "approved": save() of the request inside the transaction, then
\* the reads of _create_user_account() and of User.save()
ApproveRegistration_save(p) ==
    /\ pc[p] = "approve_tx"
    /\ arg[p].status = "approved"
    /\ RowFree(p, snap[p].id)
    /\ snap' = [snap EXCEPT ![p] =
                    reviewed(snap[p], "approved", arg[p].caller, arg[p].rejection_reason)]
    /\ user' = [user EXCEPT ![p] = create_user_account(snap'[p], arg[p].caller)]
    /\ pc' = [pc EXCEPT ![p] = "approve_commit"]
    /\ UNCHANGED <<accounts, requests, userSeq, workers, arg, resp, log>>
    /\ UNCHANGED forms

\* the handler without transaction.atomic(): the saved request stays saved
\* when the INSERT of the User row fails
ApproveRegistration_commit_no_rollback(p) ==
    /\ pc[p] = "approve_commit"
    /\ NoneDone
    /\ requests' = [requests EXCEPT ![snap[p].id] = snap[p]]
    /\ \E failed \in MailFailures({"welcome"}) :
        IF user_insert_ok(user[p]) /\ mail_helper_returns(failed)
        THEN /\ user' = [user EXCEPT ![p].id = userSeq]
             /\ accounts' = [u \in DOMAIN accounts \cup {userSeq} |->
                               IF u = userSeq THEN user'[p] ELSE accounts[u]]
             /\ userSeq' = userSeq + 1
             /\ log' = [log EXCEPT ![p] = failed]
             /\ Respond(p, [Response(HTTP_200_OK) EXCEPT !.new_user_id = userSeq,
                             !.employee_number = user[p].employee_number])
        ELSE /\ Respond(p, Response(HTTP_500_INTERNAL_SERVER_ERROR))
             /\ UNCHANGED <<accounts, userSeq, user, log>>
    /\ UNCHANGED <<workers, arg, snap>>
    /\ UNCHANGED forms

\* the INSERT of the User row, the welcome mail and the commit; an
\* IntegrityError rolls the transaction back and is answered with 500
ApproveRegistration_commit(p) ==
    /\ pc[p] = "approve_commit"
    /\ NoneDone
    /\ \E failed \in MailFailures({"welcome"}) :
        IF user_insert_ok(user[p]) /\ mail_helper_returns(failed)
        THEN /\ user' = [user EXCEPT ![p].id = userSeq]
             /\ accounts' = [u \in DOMAIN accounts \cup {userSeq} |->
                               IF u = userSeq THEN user'[p] ELSE accounts[u]]
             /\ userSeq' = userSeq + 1
             /\ requests' = [requests EXCEPT ![snap[p].id] = snap[p]]
             /\ log' = [log EXCEPT ![p] = failed]
             /\ Respond(p, [Response(HTTP_200_OK) EXCEPT !.new_user_id = userSeq,
                             !.employee_number = user[p].employee_number])
        ELSE /\ Respond(p, Response(HTTP_500_INTERNAL_SERVER_ERROR))
             /\ UNCHANGED <<accounts, requests, userSeq, user, log>>
    /\ UNCHANGED <<workers, arg, snap>>
    /\ UNCHANGED forms

-----------------------------------------------------------------------------
(* GET /pending-registrations/ *)

\* the ids of the stored requests, in table order
request_ids == [i \in 1..Len(requests) |-> i]

\* order_by("-created_at")
newest_first(a, b) == requests[a].created_at > requests[b].created_at

\* a queryset that is not narrowed to the caller's company
get_queryset_all_companies(caller) ==
    IF ~can_approve_users(caller) THEN <<>>
    ELSE SortSeq(SelectSeq(request_ids,
                    LAMBDA i : /\ requests[i].status = "pending"
                               /\ requests[i].email_verified),
                 newest_first)

\* PendingRegistrationsView.get_queryset
get_queryset(caller) ==
    IF ~can_approve_users(caller) THEN <<>>
    ELSE SortSeq(SelectSeq(request_ids,
                    LAMBDA i : /\ requests[i].company = accounts[caller].company
                               /\ requests[i].status = "pending"
                               /\ requests[i].email_verified),
                 newest_first)

\* the accounts that ask for the list: the seeded ones
ListCallers == DOMAIN accounts \cap (1..Len(SeedUsers))

\* the list is read in one query and answered with 200
PendingRegistrations_get(p, caller) ==
    /\ CanStart(p)
    /\ Quiet(p)
    /\ caller \in DOMAIN accounts
    /\ arg' = [arg EXCEPT ![p] = [NoArg EXCEPT !.op = "pending", !.caller = caller]]
    /\ Respond(p, [Response(HTTP_200_OK) EXCEPT !.results = get_queryset(caller)])
    /\ UNCHANGED <<accounts, requests, userSeq, workers, snap, user, log>>
    /\ UNCHANGED forms

-----------------------------------------------------------------------------
(* PATCH /profile/ *)

\* the account that edits its profile: the manager nobody approved
ProfileCallers ==
    {u \in DOMAIN accounts : accounts[u].username = "new.manager"}

\* the body they send: another function and an e-mail address in capitals,
\* and values for fields the serializer declares read-only
ProfileInputs ==
    {[function |-> "kitchen", email |-> "Ann@x.nl", id |-> 1,
      username |-> "manager.jill", role |-> "owner", is_approved |-> TRUE,
      email_verified |-> FALSE, employee_number |-> ""]}

\* a serializer without read_only_fields
profile_update_all_fields(row, data) ==
    [row EXCEPT !.function = data.function, !.email = data.email,
        !.role = data.role, !.is_approved = data.is_approved,
        !.employee_number = data.employee_number]

\* UserProfileSerializer: the fields of the body that are written
profile_update(row, data) ==
    [row EXCEPT !.function = data.function, !.email = data.email]

\* UserProfileView: serializer.save() on request.user, that is User.save()
UserProfile_update(caller, data) ==
    /\ AllIdle
    /\ caller \in DOMAIN accounts
    /\ accounts' = [accounts EXCEPT ![caller] = User_save(profile_update(@, data))]
    /\ UNCHANGED <<requests, userSeq, workers, pc, arg, snap, user, resp, log>>
    /\ UNCHANGED forms

-----------------------------------------------------------------------------
(* Administration *)

\* the accounts that work in the administration site
AdminActors == {u \in DOMAIN accounts : accounts[u].is_staff}

\* the add form they fill in: a new employee of their own company
add_form(actor) ==
    [NoUser EXCEPT !.username = "staff.new", !.email = "staff@x.nl",
        !.first_name = "Staff", !.last_name = "New", !.password = "Abcd1234",
        !.company = accounts[actor].company, !.role = "employee",
        !.function = "server"]

\* the rule applied to every save, new row or not
auto_approve_any(actor, obj, change) ==
    IF is_manager_or_above(actor)
    THEN [obj EXCEPT !.is_approved = TRUE, !.approved_by = actor, !.approved_at = Now]
    ELSE obj

\* UserAdmin.save_model: if not change and request.user.is_manager_or_above
auto_approve(actor, obj, change) ==
    IF ~change /\ is_manager_or_above(actor)
    THEN [obj EXCEPT !.is_approved = TRUE, !.approved_by = actor, !.approved_at = Now]
    ELSE obj

\* the add view of UserAdmin: the form refuses a username that exists;
\* save_model, then User.save() and the INSERT
UserAdmin_save_model(actor) ==
    /\ AllIdle
    /\ actor \in DOMAIN accounts
    /\ NewUsers + Cardinality(Approving) < MaxNewUsers
    /\ ~username_exists(add_form(actor).username)
    /\ LET obj == User_save(auto_approve(actor, add_form(actor), FALSE)) IN
       IF user_insert_ok(obj)
       THEN /\ accounts' = [u \in DOMAIN accounts \cup {userSeq} |->
                              IF u = userSeq THEN [obj EXCEPT !.id = userSeq]
                              ELSE accounts[u]]
            /\ userSeq' = userSeq + 1
            /\ probe' = [NoProbe EXCEPT !.op = "add", !.actor = actor,
                            !.status = HTTP_200_OK, !.rows = {userSeq}]
       ELSE /\ probe' = [NoProbe EXCEPT !.op = "add", !.actor = actor,
                            !.status = HTTP_500_INTERNAL_SERVER_ERROR]
            /\ UNCHANGED <<accounts, userSeq>>
    /\ UNCHANGED <<requests, workers, pc, arg, snap, user, resp, log, companies>>

\* on_delete=models.SET_NULL
set_null(ref, u) == IF ref = u THEN NULL ELSE ref

\* the row an administrator removes: the test employee, one of the accounts
\* that setup_testdata --reset names
DeleteInputs ==
    {u \in DOMAIN accounts : accounts[u].username = "test.werknemer"}

\* deletion of a User row
delete_user(u) ==
    /\ u \in DOMAIN accounts
    /\ accounts' = [v \in DOMAIN accounts \ {u} |->
                      [accounts[v] EXCEPT !.approved_by = set_null(@, u)]]
    /\ requests' = [i \in 1..Len(requests) |->
                      [requests[i] EXCEPT !.reviewed_by = set_null(@, u)]]
    /\ UNCHANGED <<userSeq, workers, pc, arg, snap, user, resp, log>>
    /\ UNCHANGED forms

-----------------------------------------------------------------------------

\* the worker is free for the next request
Return(p) ==
    /\ pc[p] = "done"
    /\ pc' = [pc EXCEPT ![p] = "idle"]
    /\ arg' = [arg EXCEPT ![p] = NoArg]
    /\ snap' = [snap EXCEPT ![p] = NoRow]
    /\ user' = [user EXCEPT ![p] = NoUser]
    /\ resp' = [resp EXCEPT ![p] = NoResp]
    /\ log' = [log EXCEPT ![p] = {}]
    /\ UNCHANGED <<accounts, requests, userSeq, workers>>
    /\ UNCHANGED forms

Next ==
    \/ \E p \in Procs, data \in RegisterInputs : Register_is_valid(p, data)
    \/ \E p \in Procs : Register_save(p)
    \/ \E p \in Procs, token \in TokenInputs : verify_email_get(p, token)
    \/ \E p \in Procs : verify_email_save(p)
    \/ \E p \in Procs, caller \in 1..(userSeq - 1), id \in IdInputs, body \in BodyInputs :
            ApproveRegistration_post(p, caller, id, body[1], body[2])
    \/ \E p \in Procs, caller \in BadBodyCallers, id \in IdInputs, body \in BadBodyInputs :
            ApproveRegistration_post(p, caller, id, body[1], body[2])
    \/ \E p \in Procs, caller \in ListCallers : PendingRegistrations_get(p, caller)
    \/ \E caller \in ProfileCallers, data \in ProfileInputs : UserProfile_update(caller, data)
    \/ \E actor \in AdminActors : UserAdmin_save_model(actor)
    \/ \E p \in Procs : ApproveRegistration_reject(p)
    \/ \E p \in Procs : ApproveRegistration_save(p)
    \/ \E p \in Procs : ApproveRegistration_commit(p)
    \/ \E u \in DeleteInputs : delete_user(u)
    \/ \E p \in Procs : Return(p)

\* two workers serving requests concurrently
Spec == Init /\ [][Next]_vars

\* one worker: every request is handled to its end before the next starts
SpecSeq == InitSeq /\ [][Next]_vars

-----------------------------------------------------------------------------
(* POST /lookup-company/ *)

\* Company rows beside the seeded ones that the table can hold at the start
ExtraCompanies ==
    { Company(<<<<"J","i","l","l">>>>, <<"J","I","L","L">>, TRUE),
      Company(<<<<"J","i","l","l">>, <<"T","w","o">>>>, <<"J","I","L","L","0","2">>, TRUE),
      Company(<<<<"W","o","k">>>>, <<"W","O","K">>, FALSE) }

\* the codes visitors look up: the seeded codes in both cases, the code of
\* the closed company, the beginning of a code, a code nobody has, codes
\* that are too short and too long
LookupInputs ==
    { <<"J","I","L","L","0","1">>, <<"j","i","l","l","0","1">>, <<"W","o","k","0","2">>,
      <<"O","L","D","0","3">>, <<"J","I","L","L">>, <<"j","i","l","l","0">>,
      <<"X","X","X","X","9","9">>, <<"W","O","K">>,
      <<"J","I","L","L","0","1","0","1","0">> }

\* CharField(max_length=8, min_length=4)
company_code_length_ok(value) == Len(value) >= 4 /\ Len(value) <= 8

\* Company.objects.get(company_code=code, is_active=True)
get_company(code) ==
    {c \in companies : c.company_code = code /\ c.is_active}

\* CompanyLookupSerializer.is_valid(): the length of the field, then
\* validate_company_code
CompanyLookup_is_valid(value) ==
    /\ company_code_length_ok(value)
    /\ get_company(upper_chars(value)) # {}

\* CompanyLookupView.post
CompanyLookup_post(value) ==
    /\ probe' = [NoProbe EXCEPT !.op = "lookup", !.input = value,
                    !.status = IF ~CompanyLookup_is_valid(value) THEN HTTP_400_BAD_REQUEST
                               ELSE IF get_company(upper_chars(value)) = {}
                               THEN HTTP_404_NOT_FOUND
                               ELSE HTTP_200_OK,
                    !.output = IF CompanyLookup_is_valid(value)
                                  /\ get_company(upper_chars(value)) # {}
                               THEN (CHOOSE c \in get_company(upper_chars(value)) : TRUE).company_code
                               ELSE <<>>]
    /\ UNCHANGED <<accounts, requests, userSeq, workers, pc, arg, snap, user, resp, log,
                   companies>>

-----------------------------------------------------------------------------
(* The phone field of the registration form *)

PhonePrefixes == {<<"+","3","1">>, <<"0","0","3","1">>, <<"0">>, <<>>}

PhoneSeparators == {<<>>, <<"-">>, <<" ","-"," ","-"," ">>}

PhoneTails ==
    { <<"1","2","3","4","5","6","7","8">>, <<"1","2","3","4","5","6","7">>,
      <<"1","2","3","4","x","6","7","8">> }

\* the phone numbers applicants type: a prefix, separators, a first digit
\* and the rest
PhoneProbes ==
    {pre \o sep \o <<d>> \o tail :
        pre \in PhonePrefixes, sep \in PhoneSeparators, d \in {"6", "5"},
        tail \in PhoneTails}

\* the field of the serializer: max_length of the model field on the value
\* as typed, then validate_phone
phone_run_validation(value) ==
    /\ probe' = [NoProbe EXCEPT !.op = "phone", !.input = value,
                    !.status = IF phone_ok(value) THEN HTTP_200_OK
                               ELSE HTTP_400_BAD_REQUEST,
                    !.output = IF phone_ok(value) THEN validate_phone(value) ELSE <<>>]
    /\ UNCHANGED <<accounts, requests, userSeq, workers, pc, arg, snap, user, resp, log,
                   companies>>

-----------------------------------------------------------------------------
(* CompanyAdmin: a company saved without a code *)

\* Company rows the table can hold
MaxCompanies == 6

\* the names administrators give
NameInputs ==
    { <<<<"J","i","l","l">>, <<"S","u","s","h","i">>, <<"B","a","r">>>>,
      <<<<"W","o","k">>>>,
      <<<<"a">>, <<"b">>>>,
      <<<<"S","u","s","h","i">>>> }

\* "".join(words)
RECURSIVE join(_)
join(words) == IF words = <<>> THEN <<>> ELSE Head(words) \o join(Tail(words))

\* s[:n]
first(s, n) == SubSeq(s, 1, IF Len(s) < n THEN Len(s) ELSE n)

\* "".join([c.upper() for c in obj.name.split()[:2]])[:4]
base_code(name) == first(join([i \in 1..Len(first(name, 2)) |-> upper_chars(name[i])]), 4)

DigitChars == <<"0","1","2","3","4","5","6","7","8","9">>

\* str(n), one character per element
RECURSIVE str(_)
str(n) ==
    IF n < 10 THEN <<DigitChars[n + 1]>>
    ELSE str(n \div 10) \o <<DigitChars[(n % 10) + 1]>>

\* f"{counter:02d}"
Pad2(counter) == IF counter < 10 THEN <<"0">> \o str(counter) ELSE str(counter)

\* Company.objects.filter(company_code=company_code).exists()
company_code_exists(code) == \E c \in companies : c.company_code = code

\* while Company.objects.filter(company_code=company_code).exists():
\*     company_code = f"{base_code}{counter:02d}"; counter += 1
RECURSIVE issue_code(_, _, _)
issue_code(base, company_code, counter) ==
    IF company_code_exists(company_code)
    THEN issue_code(base, base \o Pad2(counter), counter + 1)
    ELSE company_code

\* CompanyAdmin.save_model for a company without a code: the code is
\* generated and the row inserted
CompanyAdmin_save_model(name) ==
    /\ Cardinality(companies) < MaxCompanies
    /\ LET code == issue_code(base_code(name), base_code(name), 1) IN
       /\ companies' = companies \cup {Company(name, code, TRUE)}
       /\ probe' = [NoProbe EXCEPT !.op = "company", !.name = name,
                       !.status = HTTP_200_OK, !.output = code]
    /\ UNCHANGED <<accounts, requests, userSeq, workers, pc, arg, snap, user, resp, log>>

-----------------------------------------------------------------------------
(* The forms outside the workflow, handled one after the other *)

InitForms ==
    /\ accounts = [u \in 1..Len(SeedUsers) |-> SeedUsers[u]]
    /\ requests = <<>>
    /\ userSeq = Len(SeedUsers) + 1
    /\ workers = 1
    /\ pc = [p \in Procs |-> "idle"]
    /\ arg = [p \in Procs |-> NoArg]
    /\ snap = [p \in Procs |-> NoRow]
    /\ user = [p \in Procs |-> NoUser]
    /\ resp = [p \in Procs |-> NoResp]
    /\ log = [p \in Procs |-> {}]
    /\ \E extra \in SUBSET ExtraCompanies : companies = SeedCompanies \cup extra
    /\ probe = NoProbe

NextForms ==
    \/ \E value \in LookupInputs : CompanyLookup_post(value)
    \/ \E value \in PhoneProbes : phone_run_validation(value)
    \/ \E name \in NameInputs : CompanyAdmin_save_model(name)

SpecForms == InitForms /\ [][NextForms]_vars

-----------------------------------------------------------------------------
(* The administration site: listings and the change form *)

\* The tables at the start, with the owner of the second tenant as the
\* superuser of the site
InitAdmin ==
    /\ accounts = [u \in 1..Len(SeedUsers) |->
                      IF SeedUsers[u].role = "owner"
                      THEN [SeedUsers[u] EXCEPT !.is_superuser = TRUE, !.is_staff = TRUE]
                      ELSE SeedUsers[u]]
    /\ requests = <<>>
    /\ userSeq = Len(SeedUsers) + 1
    /\ workers = 1
    /\ pc = [p \in Procs |-> "idle"]
    /\ arg = [p \in Procs |-> NoArg]
    /\ snap = [p \in Procs |-> NoRow]
    /\ user = [p \in Procs |-> NoUser]
    /\ resp = [p \in Procs |-> NoResp]
    /\ log = [p \in Procs |-> {}]
    /\ companies = SeedCompanies
    /\ probe = NoProbe

\* UserAdmin.get_queryset
UserAdmin_get_queryset(actor) ==
    IF accounts[actor].is_superuser THEN DOMAIN accounts
    ELSE IF is_manager_or_above(actor)
    THEN {u \in DOMAIN accounts : accounts[u].company = accounts[actor].company}
    ELSE {u \in DOMAIN accounts : accounts[u].id = accounts[actor].id}

\* RegistrationRequestAdmin.get_queryset: every User instance has the
\* attribute company
RegistrationRequestAdmin_get_queryset(actor) ==
    IF accounts[actor].is_superuser THEN 1..Len(requests)
    ELSE {i \in 1..Len(requests) : requests[i].company = accounts[actor].company}

\* the changelist of the User table
UserAdmin_changelist(actor) ==
    /\ AllIdle
    /\ actor \in DOMAIN accounts
    /\ probe' = [NoProbe EXCEPT !.op = "users", !.actor = actor,
                    !.status = HTTP_200_OK, !.rows = UserAdmin_get_queryset(actor)]
    /\ UNCHANGED <<accounts, requests, userSeq, workers, pc, arg, snap, user, resp, log,
                   companies>>

\* the changelist of the RegistrationRequest table
RegistrationRequestAdmin_changelist(actor) ==
    /\ AllIdle
    /\ actor \in DOMAIN accounts
    /\ probe' = [NoProbe EXCEPT !.op = "requests", !.actor = actor,
                    !.status = HTTP_200_OK,
                    !.rows = RegistrationRequestAdmin_get_queryset(actor)]
    /\ UNCHANGED <<accounts, requests, userSeq, workers, pc, arg, snap, user, resp, log,
                   companies>>

\* the change form as it is sent: the row with another first name
change_form(target) == [accounts[target] EXCEPT !.first_name = "Edited"]

\* the change view of UserAdmin for a row of the actor's queryset:
\* save_model with change=True, then User.save() and the UPDATE
UserAdmin_change(actor, target) ==
    /\ AllIdle
    /\ actor \in DOMAIN accounts
    /\ target \in UserAdmin_get_queryset(actor)
    /\ accounts' = [accounts EXCEPT ![target] =
                       User_save(auto_approve(actor, change_form(target), TRUE))]
    /\ probe' = [NoProbe EXCEPT !.op = "change", !.actor = actor,
                    !.status = HTTP_200_OK, !.rows = {target}]
    /\ UNCHANGED <<requests, userSeq, workers, pc, arg, snap, user, resp, log, companies>>

\* queryset.filter(status="pending", email_verified=True) of approve_requests
approve_filter(queryset) ==
    {i \in queryset : requests[i].status = "pending" /\ requests[i].email_verified}

\* the action "approve_requests" on the rows ticked in the changelist: each
\* pending, verified row gets status, reviewed_by and reviewed_at and is
\* saved; no User row is made
RegistrationRequestAdmin_approve_requests(actor, queryset) ==
    /\ AllIdle
    /\ actor \in DOMAIN accounts
    /\ queryset # {}
    /\ queryset \subseteq RegistrationRequestAdmin_get_queryset(actor)
    /\ requests' = [i \in 1..Len(requests) |->
                      IF i \in approve_filter(queryset)
                      THEN [requests[i] EXCEPT !.status = "approved",
                               !.reviewed_by = actor, !.reviewed_at = Now]
                      ELSE requests[i]]
    /\ probe' = [NoProbe EXCEPT !.op = "approve_requests", !.actor = actor,
                    !.status = HTTP_200_OK, !.rows = approve_filter(queryset)]
    /\ UNCHANGED <<accounts, userSeq, workers, pc, arg, snap, user, resp, log, companies>>

\* queryset.filter(status="pending") of reject_requests
reject_filter(queryset) == {i \in queryset : requests[i].status = "pending"}

\* the action "reject_requests": one UPDATE of the pending rows ticked
RegistrationRequestAdmin_reject_requests(actor, queryset) ==
    /\ AllIdle
    /\ actor \in DOMAIN accounts
    /\ queryset # {}
    /\ queryset \subseteq RegistrationRequestAdmin_get_queryset(actor)
    /\ requests' = [i \in 1..Len(requests) |->
                      IF i \in reject_filter(queryset)
                      THEN [requests[i] EXCEPT !.status = "rejected",
                               !.reviewed_by = actor, !.reviewed_at = Now,
                               !.rejection_reason = "Afgewezen via bulk actie in admin"]
                      ELSE requests[i]]
    /\ probe' = [NoProbe EXCEPT !.op = "reject_requests", !.actor = actor,
                    !.status = HTTP_200_OK, !.rows = reject_filter(queryset)]
    /\ UNCHANGED <<accounts, userSeq, workers, pc, arg, snap, user, resp, log, companies>>

\* the rows that are edited: those nobody approved
ChangeTargets == {u \in DOMAIN accounts : ~accounts[u].is_approved}

NextAdmin ==
    \/ \E p \in Procs, data \in RegisterInputs : Register_is_valid(p, data)
    \/ \E p \in Procs : Register_save(p)
    \/ \E p \in Procs : Return(p)
    \/ \E actor \in AdminActors : UserAdmin_save_model(actor)
    \/ \E actor \in AdminActors, target \in ChangeTargets : UserAdmin_change(actor, target)
    \/ \E actor \in AdminActors : UserAdmin_changelist(actor)
    \/ \E actor \in AdminActors : RegistrationRequestAdmin_changelist(actor)

SpecAdmin == InitAdmin /\ [][NextAdmin]_vars

\* The workflow served by one worker, with the two bulk actions of the
\* administration site beside the endpoint that decides
NextSite ==
    \/ \E p \in Procs, data \in RegisterInputs : Register_is_valid(p, data)
    \/ \E p \in Procs : Register_save(p)
    \/ \E p \in Procs, token \in TokenInputs : verify_email_get(p, token)
    \/ \E p \in Procs : verify_email_save(p)
    \/ \E p \in Procs, caller \in 1..(userSeq - 1), id \in IdInputs, body \in BodyInputs :
            ApproveRegistration_post(p, caller, id, body[1], body[2])
    \/ \E p \in Procs : ApproveRegistration_reject(p)
    \/ \E p \in Procs : ApproveRegistration_save(p)
    \/ \E p \in Procs : ApproveRegistration_commit(p)
    \/ \E p \in Procs : Return(p)
    \/ \E actor \in AdminActors, queryset \in SUBSET (1..Len(requests)) :
            RegistrationRequestAdmin_approve_requests(actor, queryset)
    \/ \E actor \in AdminActors, queryset \in SUBSET (1..Len(requests)) :
            RegistrationRequestAdmin_reject_requests(actor, queryset)

SpecSite == InitAdmin /\ [][NextSite]_vars

-----------------------------------------------------------------------------
(* Steps of the handlers, as the properties below see them *)

\* worker p ends the handling of a request in this step
Ends(p) == pc[p] # "done" /\ pc'[p] = "done"

\* worker p takes a request in this step
Takes(p, op) == pc[p] = "idle" /\ pc'[p] # "idle" /\ arg'[p].op = op

Terminal(status) == status \in {"approved", "rejected"}

\* the User rows provisioned from the request with this id
ProvisionedFrom(id) == {u \in DOMAIN accounts : accounts[u].registration = id}

\* a pending row for the pair is stored
PendingFor(email, company) ==
    \E i \in 1..Len(requests) :
        /\ requests[i].email = email
        /\ requests[i].company = company
        /\ requests[i].status = "pending"

-----------------------------------------------------------------------------
(* C1 *)

\* C1: of two concurrent Decide calls on the same pending, verified request
\* at most one succeeds: a Decide succeeds only while the stored request is
\* still pending, no request has two Accounts provisioned from it, and no
\* rejected request has an Account provisioned from it.
C1_DecideMutuallyExclusive ==
    /\ [][\A p \in Procs :
            (Ends(p) /\ arg[p].op = "approve" /\ resp'[p].status = HTTP_200_OK)
                => requests[snap[p].id].status = "pending"]_vars
    /\ [](\A i \in 1..Len(requests) :
            /\ Cardinality(ProvisionedFrom(i)) <= 1
            /\ requests[i].status = "rejected" => ProvisionedFrom(i) = {})

-----------------------------------------------------------------------------
(* C2 *)

\* C2: of two concurrent Submit calls for the same (email, tenant) that both
\* passed the duplicate check, the one that finds the other's pending row at
\* its insert fails with a validation error (400), never an internal error,
\* and no second row is stored.
C2_SubmitRaceIsConflict ==
    [][\A p \in Procs :
        (Ends(p) /\ arg[p].op = "register" /\ pc[p] = "register_save"
            /\ PendingFor(snap[p].email, snap[p].company))
            => /\ resp'[p].status = HTTP_400_BAD_REQUEST
               /\ requests' = requests]_vars

-----------------------------------------------------------------------------
(* C3 *)

\* C3: once a request is approved or rejected, no operation changes its
\* status again.
C3_TerminalStatus ==
    [][\A i \in 1..Len(requests) :
        Terminal(requests[i].status) => requests'[i].status = requests[i].status]_vars

-----------------------------------------------------------------------------
(* C4 *)

\* C4: for every pair (email, tenant) at most one stored request is pending.
C4_OnePendingPerPair ==
    \A i, j \in 1..Len(requests) :
        (/\ requests[i].email = requests[j].email
         /\ requests[i].company = requests[j].company
         /\ requests[i].status = "pending"
         /\ requests[j].status = "pending") => i = j

\* a Submit that had passed the duplicate check met a pending row of its
\* pair at the insert and stored nothing
C4_Witness ==
    \E p \in Procs :
        /\ pc[p] = "done"
        /\ arg[p].op = "register"
        /\ snap[p].id = 0
        /\ snap[p].status = "pending"
        /\ PendingFor(snap[p].email, snap[p].company)
        /\ resp[p].status = HTTP_500_INTERNAL_SERVER_ERROR

-----------------------------------------------------------------------------
(* C5 *)

\* C5: a Decide(approved) that entered its transaction either sets the
\* request to approved with reviewedBy/reviewedAt and creates exactly one
\* Account, or answers 500 and leaves the request pending and unreviewed
\* and the tables as they were.
C5_DecideAtomic ==
    [][\A p \in Procs :
        (Ends(p) /\ arg[p].op = "approve" /\ arg[p].status = "approved"
            /\ pc[p] = "approve_commit")
        => LET id == arg[p].registration_id IN
           \/ /\ resp'[p].status = HTTP_200_OK
              /\ requests'[id].status = "approved"
              /\ requests'[id].reviewed_by = arg[p].caller
              /\ requests'[id].reviewed_at # NULL
              /\ Cardinality(DOMAIN accounts' \ DOMAIN accounts) = 1
              /\ DOMAIN accounts \subseteq DOMAIN accounts'
              /\ \A u \in DOMAIN accounts : accounts'[u] = accounts[u]
              /\ \A u \in DOMAIN accounts' \ DOMAIN accounts :
                    accounts'[u].registration = id
           \/ /\ resp'[p].status = HTTP_500_INTERNAL_SERVER_ERROR
              /\ requests'[id].status = "pending"
              /\ requests'[id].reviewed_by = NULL
              /\ requests'[id].reviewed_at = NULL
              /\ requests' = requests
              /\ accounts' = accounts]_vars

\* the creation of the Account failed inside a Decide(approved)
C5_Witness ==
    \E p \in Procs :
        /\ pc[p] = "done"
        /\ arg[p].op = "approve"
        /\ arg[p].status = "approved"
        /\ user[p] # NoUser
        /\ resp[p].status = HTTP_500_INTERNAL_SERVER_ERROR
        /\ requests[arg[p].registration_id].status = "pending"

-----------------------------------------------------------------------------
(* C6 *)

\* C6: every Submit that passed validation creates exactly one request,
\* pending, unverified, with a token no stored request carries, also when
\* an approved or rejected request of the same (email, tenant) is stored.
C6_ValidSubmitCreates ==
    [][\A p \in Procs :
        (Ends(p) /\ arg[p].op = "register" /\ pc[p] = "register_save")
        => /\ resp'[p].status = HTTP_201_CREATED
           /\ Len(requests') = Len(requests) + 1
           /\ SubSeq(requests', 1, Len(requests)) = requests
           /\ requests'[Len(requests')].status = "pending"
           /\ ~requests'[Len(requests')].email_verified
           /\ \A i \in 1..Len(requests) :
                requests[i].verification_token
                    # requests'[Len(requests')].verification_token]_vars

-----------------------------------------------------------------------------
(* C7 *)

\* C7: while a pending request for (email, tenant) is stored, a Submit for
\* the same address (in any letter case) and tenant is answered with a
\* validation error and the tables stay as they are.
C7_DuplicateSubmitRefused ==
    [][\A p \in Procs :
        (Takes(p, "register")
            /\ PendingFor(lower(arg'[p].email), upper(arg'[p].company_code)))
        => /\ pc'[p] = "done"
           /\ resp'[p].status = HTTP_400_BAD_REQUEST
           /\ requests' = requests
           /\ accounts' = accounts]_vars

\* an otherwise valid form with the address in another letter case was
\* refused because of the pending request
C7_Witness ==
    \E p \in Procs :
        /\ pc[p] = "done"
        /\ arg[p] = Form("Ann@x.nl", "jill01")
        /\ ~email_taken(arg[p].email)
        /\ PendingFor("ann@x.nl", "JILL01")
        /\ resp[p].status = HTTP_400_BAD_REQUEST

-----------------------------------------------------------------------------
(* C8 *)

\* a request with this token is stored and pending
TokenPending(token) ==
    \E i \in 1..Len(requests) :
        requests[i].verification_token = token /\ requests[i].status = "pending"

\* C8: Verify(token) succeeds and sets emailVerified iff a pending request
\* carries exactly that token; otherwise it is answered NotFound and no
\* record changes.
C8_VerifyIffPending ==
    [][\A p \in Procs :
        /\ (Takes(p, "verify") /\ TokenPending(arg'[p].token))
            => /\ pc'[p] = "verify_save"
               /\ snap'[p].verification_token = arg'[p].token
        /\ (Takes(p, "verify") /\ ~TokenPending(arg'[p].token))
            => /\ pc'[p] = "done"
               /\ resp'[p].status = HTTP_404_NOT_FOUND
               /\ requests' = requests
               /\ accounts' = accounts
        /\ (Ends(p) /\ arg[p].op = "verify" /\ pc[p] = "verify_save")
            => /\ resp'[p].status = HTTP_200_OK
               /\ requests'[snap[p].id].email_verified
               /\ requests'[snap[p].id].verification_token = arg[p].token]_vars

\* Verify with the token of a decided request was answered NotFound
C8_Witness ==
    \E p \in Procs :
        /\ pc[p] = "done"
        /\ arg[p].op = "verify"
        /\ resp[p].status = HTTP_404_NOT_FOUND
        /\ \E i \in 1..Len(requests) :
              /\ requests[i].verification_token = arg[p].token
              /\ Terminal(requests[i].status)

-----------------------------------------------------------------------------
(* C9 *)

\* a pending request with this token is stored and is already verified
TokenVerified(token) ==
    \E i \in 1..Len(requests) :
        /\ requests[i].verification_token = token
        /\ requests[i].status = "pending"
        /\ requests[i].email_verified

-----------------------------------------------------------------------------
(* C10 *)

\* every Account provisioned by the workflow comes from a verified request
FromVerifiedRequest ==
    \A u \in DOMAIN accounts :
        accounts[u].registration # 0
            => requests[accounts[u].registration].email_verified

\* the request a Decide names is stored and its email is not verified
Unverified(id) == id <= Len(requests) /\ ~requests[id].email_verified

\* C10 as claimed: Decide on an unverified request is answered NotFound for
\* every caller and changes nothing.
C10_UnverifiedNotFoundForAll ==
    [][\A p \in Procs :
        (Takes(p, "approve") /\ Unverified(arg'[p].registration_id))
        => /\ pc'[p] = "done"
           /\ resp'[p].status = HTTP_404_NOT_FOUND
           /\ requests' = requests
           /\ accounts' = accounts]_vars

\* C10: Decide on an unverified request changes nothing and is answered
\* NotFound for every caller that may approve requests, and 403 for every
\* other caller; every Account provisioned by the workflow comes from a
\* request whose email was verified.
C10_UnverifiedNeverDecided ==
    /\ [][\A p \in Procs :
            (Takes(p, "approve") /\ Unverified(arg'[p].registration_id))
            => /\ pc'[p] = "done"
               /\ resp'[p].status =
                     IF can_approve_users(arg'[p].caller)
                     THEN HTTP_404_NOT_FOUND ELSE HTTP_403_FORBIDDEN
               /\ requests' = requests
               /\ accounts' = accounts]_vars
    /\ []FromVerifiedRequest

\* a manager of the tenant who may approve asked to approve a pending,
\* unverified request and was answered NotFound
C10_Witness ==
    \E p \in Procs :
        /\ pc[p] = "done"
        /\ arg[p].op = "approve"
        /\ arg[p].status = "approved"
        /\ arg[p].caller \in DOMAIN accounts
        /\ can_approve_users(arg[p].caller)
        /\ Unverified(arg[p].registration_id)
        /\ requests[arg[p].registration_id].status = "pending"
        /\ requests[arg[p].registration_id].company = accounts[arg[p].caller].company
        /\ resp[p].status = HTTP_404_NOT_FOUND

-----------------------------------------------------------------------------
(* C11 *)

\* the accounts of the company that carry an employee number
Numbered(company) ==
    {u \in DOMAIN accounts :
        accounts[u].company = company /\ accounts[u].employee_number # ""}

\* worker p ends a Decide(approved) with success in this step
Approves(p) ==
    /\ Ends(p)
    /\ arg[p].op = "approve"
    /\ arg[p].status = "approved"
    /\ resp'[p].status = HTTP_200_OK

\* C11: the employee number that User.save() gives the Account of a
\* Decide(approved) is '{tenantCode}-{N:04d}' with N = 1 + the number of
\* numbered Accounts of the tenant at that save (JILL01 with three Accounts:
\* JILL01-0004), and a successful Decide(approved) creates exactly one
\* Account, which carries that number.
C11_EmployeeNumber ==
    [][\A p \in Procs :
        /\ (pc[p] = "approve_tx" /\ pc'[p] = "approve_commit")
            => LET company == requests[arg[p].registration_id].company
                   N == Cardinality(Numbered(company)) + 1 IN
               /\ user'[p].employee_number = company \o "-" \o Pad4(N)
               /\ (company = "JILL01" /\ N = 4)
                    => user'[p].employee_number = "JILL01-0004"
               /\ (company = "WOK02" /\ N = 2)
                    => user'[p].employee_number = "WOK02-0002"
        /\ Approves(p)
            => /\ Cardinality(DOMAIN accounts' \ DOMAIN accounts) = 1
               /\ \A u \in DOMAIN accounts' \ DOMAIN accounts :
                     /\ accounts'[u].employee_number = user[p].employee_number
                     /\ accounts'[u].registration = arg[p].registration_id
                     /\ resp'[p].employee_number = user[p].employee_number]_vars

\* two Decide(approved) gave the tenant JILL01 the numbers 0004 and 0005
C11_Witness ==
    /\ \E u \in DOMAIN accounts :
          accounts[u].registration # 0 /\ accounts[u].employee_number = "JILL01-0004"
    /\ \E u \in DOMAIN accounts :
          accounts[u].registration # 0 /\ accounts[u].employee_number = "JILL01-0005"

-----------------------------------------------------------------------------
(* C12 *)

\* C12 as claimed: no two Accounts carry the same employee number, and a
\* Decide(approved) whose number was meanwhile taken by the Account of
\* another request of the same tenant (both read the same count; no Account
\* was deleted) still completes successfully.
C12_ConcurrentNumbersBothSucceed ==
    /\ [](\A u, v \in DOMAIN accounts :
            accounts[u].employee_number = accounts[v].employee_number => u = v)
    /\ [][\A p \in Procs :
            (/\ Ends(p)
             /\ arg[p].op = "approve"
             /\ pc[p] = "approve_commit"
             /\ Cardinality(DOMAIN accounts) = userSeq - 1
             /\ \E u \in DOMAIN accounts :
                   /\ accounts[u].registration \notin {0, arg[p].registration_id}
                   /\ accounts[u].company = user[p].company
                   /\ accounts[u].employee_number = user[p].employee_number)
            => resp'[p].status = HTTP_200_OK]_vars

-----------------------------------------------------------------------------
(* C13 *)

\* C13: every Account carries an employee number, and no step changes the
\* employee number of a stored Account.
C13_EmployeeNumberStable ==
    /\ [](\A u \in DOMAIN accounts : accounts[u].employee_number # "")
    /\ [][\A u \in DOMAIN accounts \cap DOMAIN accounts' :
            accounts'[u].employee_number = accounts[u].employee_number]_vars

\* the unapproved manager saved its profile, and the number of Accounts of
\* its tenant is no longer the one its employee number was computed from
C13_Witness ==
    \E u \in DOMAIN accounts :
        /\ accounts[u].username = "new.manager"
        /\ accounts[u].function = "kitchen"
        /\ accounts[u].employee_number = "JILL01-0003"
        /\ Cardinality(Numbered("JILL01")) = 4

-----------------------------------------------------------------------------
(* C14 *)

\* the caller may approve and the request is a pending, verified one of the
\* caller's tenant
Decidable(caller, id) ==
    /\ caller \in DOMAIN accounts
    /\ accounts[caller].role \in {"manager", "owner"}
    /\ accounts[caller].is_approved
    /\ id <= Len(requests)
    /\ requests[id].company = accounts[caller].company
    /\ requests[id].status = "pending"
    /\ requests[id].email_verified

\* C14: Decide(rejected) on a pending, verified request of the caller's
\* tenant without a reason is answered 400 and leaves the request pending
\* and unreviewed; with a reason it sets status rejected, reviewedBy,
\* reviewedAt and the given reason, and creates no Account.
C14_RejectNeedsReason ==
    [][\A p \in Procs :
        /\ (/\ Takes(p, "approve")
             /\ arg'[p].status = "rejected"
             /\ Decidable(arg'[p].caller, arg'[p].registration_id))
            => IF arg'[p].rejection_reason = ""
               THEN /\ pc'[p] = "done"
                    /\ resp'[p].status = HTTP_400_BAD_REQUEST
                    /\ requests' = requests
                    /\ accounts' = accounts
                    /\ requests'[arg'[p].registration_id].status = "pending"
                    /\ requests'[arg'[p].registration_id].reviewed_by = NULL
                    /\ requests'[arg'[p].registration_id].reviewed_at = NULL
               ELSE pc'[p] = "approve_tx"
        /\ (Ends(p) /\ arg[p].op = "approve" /\ arg[p].status = "rejected"
                /\ pc[p] = "approve_tx")
            => LET id == arg[p].registration_id IN
               /\ resp'[p].status = HTTP_200_OK
               /\ requests'[id].status = "rejected"
               /\ requests'[id].reviewed_by = arg[p].caller
               /\ requests'[id].reviewed_at # NULL
               /\ requests'[id].rejection_reason = arg[p].rejection_reason
               /\ arg[p].rejection_reason # ""
               /\ accounts' = accounts]_vars

\* a rejection without a reason was refused
C14_Witness ==
    \E p \in Procs :
        /\ pc[p] = "done"
        /\ arg[p].op = "approve"
        /\ arg[p].status = "rejected"
        /\ arg[p].rejection_reason = ""
        /\ Decidable(arg[p].caller, arg[p].registration_id)
        /\ resp[p].status = HTTP_400_BAD_REQUEST

-----------------------------------------------------------------------------
(* C15 *)

\* role manager or owner, and approved
MayApprove(u) ==
    /\ accounts[u].role \in {"manager", "owner"}
    /\ accounts[u].is_approved

\* C15: can_approve_users is true exactly for approved managers and owners,
\* and a Decide by any other caller is answered 403, whatever the id and
\* the body, and changes no request and no Account.
C15_UnauthorizedDecide ==
    /\ [](\A u \in DOMAIN accounts : can_approve_users(u) <=> MayApprove(u))
    /\ [][\A p \in Procs :
            (Takes(p, "approve") /\ ~MayApprove(arg'[p].caller))
            => /\ pc'[p] = "done"
               /\ resp'[p].status = HTTP_403_FORBIDDEN
               /\ requests' = requests
               /\ accounts' = accounts]_vars

\* the manager nobody approved asked to approve a pending, verified request
\* of its own tenant and was answered 403
C15_Witness ==
    \E p \in Procs :
        /\ pc[p] = "done"
        /\ arg[p].op = "approve"
        /\ arg[p].status = "approved"
        /\ arg[p].caller \in DOMAIN accounts
        /\ accounts[arg[p].caller].role = "manager"
        /\ ~accounts[arg[p].caller].is_approved
        /\ arg[p].registration_id <= Len(requests)
        /\ requests[arg[p].registration_id].status = "pending"
        /\ requests[arg[p].registration_id].email_verified
        /\ requests[arg[p].registration_id].company = accounts[arg[p].caller].company
        /\ resp[p].status = HTTP_403_FORBIDDEN

-----------------------------------------------------------------------------
(* C16 *)

\* the pending, verified requests of a company
PendingVerified(company) ==
    {i \in 1..Len(requests) :
        /\ requests[i].company = company
        /\ requests[i].status = "pending"
        /\ requests[i].email_verified}

\* C16: List pending is answered 200; for a caller that may approve the list
\* holds exactly the pending, verified requests of the caller's tenant, each
\* once, newest first; for every other caller it is empty.
C16_ListPending ==
    [][\A p \in Procs :
        Takes(p, "pending")
        => LET r == resp'[p].results
               c == arg'[p].caller IN
           /\ pc'[p] = "done"
           /\ resp'[p].status = HTTP_200_OK
           /\ requests' = requests
           /\ accounts' = accounts
           /\ IF MayApprove(c)
              THEN /\ {r[k] : k \in 1..Len(r)} = PendingVerified(accounts[c].company)
                   /\ Len(r) = Cardinality(PendingVerified(accounts[c].company))
                   /\ \A j, k \in 1..Len(r) :
                         j < k => requests[r[j]].created_at > requests[r[k]].created_at
              ELSE r = <<>>]_vars

\* the manager of the first tenant got two requests, the newer one first
C16_Witness ==
    \E p \in Procs :
        /\ pc[p] = "done"
        /\ arg[p].op = "pending"
        /\ resp[p].results = <<2, 1>>

-----------------------------------------------------------------------------
(* C17 *)

\* C17: a Decide by a caller that may approve, on the id of a request of
\* another tenant, gets the same 404 response as on an id that is not
\* stored, and changes nothing; a Decide that succeeds was made by an
\* Account of the request's tenant.
C17_TenantIsolation ==
    [][\A p \in Procs :
        /\ (/\ Takes(p, "approve")
             /\ MayApprove(arg'[p].caller)
             /\ \/ arg'[p].registration_id > Len(requests)
                \/ requests[arg'[p].registration_id].company
                      # accounts[arg'[p].caller].company)
            => /\ pc'[p] = "done"
               /\ resp'[p] = Response(HTTP_404_NOT_FOUND)
               /\ requests' = requests
               /\ accounts' = accounts
        /\ (Ends(p) /\ arg[p].op = "approve" /\ resp'[p].status = HTTP_200_OK)
            => /\ requests'[arg[p].registration_id].reviewed_by = arg[p].caller
               /\ accounts[arg[p].caller].company
                    = requests'[arg[p].registration_id].company]_vars

\* the owner of the second tenant asked to approve a pending, verified
\* request of the first tenant and was answered 404
C17_Witness ==
    \E p \in Procs :
        /\ pc[p] = "done"
        /\ arg[p].op = "approve"
        /\ arg[p].caller \in DOMAIN accounts
        /\ MayApprove(arg[p].caller)
        /\ accounts[arg[p].caller].company = "WOK02"
        /\ arg[p].registration_id <= Len(requests)
        /\ requests[arg[p].registration_id].company = "JILL01"
        /\ requests[arg[p].registration_id].status = "pending"
        /\ requests[arg[p].registration_id].email_verified
        /\ resp[p].status = HTTP_404_NOT_FOUND

-----------------------------------------------------------------------------
(* C18 *)

\* no stored request has the pair (email, company) of the row
PairFree(row) ==
    \A i \in 1..Len(requests) :
        ~(requests[i].email = row.email /\ requests[i].company = row.company)

\* no Account has the username or the employee number of the row
NameAndNumberFree(row) ==
    \A u \in DOMAIN accounts :
        /\ accounts[u].username # row.username
        /\ accounts[u].employee_number # row.employee_number

\* C18: whether a handler succeeds depends on the tables alone, not on its
\* mails: a Submit whose row can be stored answers 201 and stores it, a
\* Decide(rejected) answers 200 and stores the rejection, a Decide(approved)
\* whose Account can be stored answers 200 and stores the approval and the
\* Account; and a handler that logged a failed mail has answered success
\* and committed its change.
C18_MailFailureHarmless ==
    [][\A p \in Procs :
        /\ (Ends(p) /\ pc[p] = "register_save" /\ PairFree(snap[p]))
            => /\ resp'[p].status = HTTP_201_CREATED
               /\ Len(requests') = Len(requests) + 1
               /\ requests'[Len(requests')].email = snap[p].email
        /\ (Ends(p) /\ pc[p] = "approve_tx" /\ arg[p].status = "rejected")
            => /\ resp'[p].status = HTTP_200_OK
               /\ requests'[arg[p].registration_id].status = "rejected"
        /\ (Ends(p) /\ pc[p] = "approve_commit" /\ NameAndNumberFree(user[p]))
            => /\ resp'[p].status = HTTP_200_OK
               /\ requests'[arg[p].registration_id].status = "approved"
               /\ Cardinality(DOMAIN accounts' \ DOMAIN accounts) = 1
        /\ (Ends(p) /\ log'[p] # {})
            => /\ resp'[p].status \in {HTTP_200_OK, HTTP_201_CREATED}
               /\ arg[p].op = "register" => Len(requests') = Len(requests) + 1
               /\ arg[p].op = "approve"
                    => requests'[arg[p].registration_id].status = arg[p].status]_vars

\* the welcome mail of a Decide(approved) failed; the Account is stored and
\* the answer was 200
C18_Witness ==
    \E p \in Procs :
        /\ pc[p] = "done"
        /\ arg[p].op = "approve"
        /\ arg[p].status = "approved"
        /\ log[p] = {"welcome"}
        /\ resp[p].status = HTTP_200_OK
        /\ resp[p].new_user_id \in DOMAIN accounts
        /\ accounts[resp[p].new_user_id].registration = arg[p].registration_id
        /\ requests[arg[p].registration_id].status = "approved"

-----------------------------------------------------------------------------
(* C19 *)

\* the passwords a stored request can have been submitted with
ChosenPasswords == {pw \in PasswordInputs : password_ok(pw)}

\* C19 as claimed: the Account provisioned from a request has the password
\* the applicant chose at Submit.
C19_ChosenPassword ==
    \A u \in DOMAIN accounts :
        accounts[u].registration # 0 => accounts[u].password \in ChosenPasswords

-----------------------------------------------------------------------------
(* C20 *)

\* C20 as claimed: whenever an Account is stored as approved by another
\* Account, that Account had role manager or owner and was approved itself.
C20_ApprovedByApprovedManager ==
    [][\A u \in DOMAIN accounts' \ DOMAIN accounts :
        (accounts'[u].is_approved /\ accounts'[u].approved_by # NULL)
        => /\ accounts'[u].approved_by \in DOMAIN accounts
           /\ accounts[accounts'[u].approved_by].role \in {"manager", "owner"}
           /\ accounts[accounts'[u].approved_by].is_approved]_vars

-----------------------------------------------------------------------------
(* C21 *)

\* the active companies whose code is exactly the uppercased code looked up
ActiveWithCode(value) ==
    {c \in companies : c.company_code = upper_chars(value) /\ c.is_active}

\* C21 as claimed: a lookup of a code some active company has exactly, after
\* uppercasing, returns that company; a code of 4 to 8 characters that no
\* active company has is answered 404 without a company.
C21_LookupNotFound ==
    probe.op = "lookup" =>
        /\ (Len(probe.input) \in 4..8 /\ ActiveWithCode(probe.input) # {})
            => /\ probe.status = HTTP_200_OK
               /\ probe.output = upper_chars(probe.input)
        /\ (Len(probe.input) \in 4..8 /\ ActiveWithCode(probe.input) = {})
            => /\ probe.status = HTTP_404_NOT_FOUND
               /\ probe.output = <<>>

-----------------------------------------------------------------------------
(* C26 *)

\* the input without whitespace and hyphens
Stripped(value) == SelectSeq(value, LAMBDA ch : ch \notin {" ", "-"})

\* +31, 0031 or 0, then 6, then exactly 8 digits
DutchMobile(c) ==
    \E pre \in {<<"+","3","1">>, <<"0","0","3","1">>, <<"0">>} :
        /\ Len(c) = Len(pre) + 9
        /\ SubSeq(c, 1, Len(pre)) = pre
        /\ c[Len(pre) + 1] = "6"
        /\ \A i \in (Len(pre) + 2)..Len(c) : c[i] \in Digits

\* C26 as claimed: a phone number is accepted exactly when it is a Dutch
\* mobile number after whitespace and hyphens are removed, and an accepted
\* number is returned as +316 followed by its last 8 digits.
C26_PhoneValidation ==
    probe.op = "phone" =>
        LET c == Stripped(probe.input) IN
        /\ DutchMobile(c) <=> probe.status = HTTP_200_OK
        /\ DutchMobile(c)
            => probe.output = <<"+","3","1","6">> \o SubSeq(c, Len(c) - 7, Len(c))

-----------------------------------------------------------------------------
(* C30 *)

\* the uppercased first two words of the name, cut to 4 characters
BaseOf(name) ==
    LET two == IF Len(name) <= 2 THEN name ELSE SubSeq(name, 1, 2)
        all == IF Len(two) = 0 THEN <<>>
               ELSE IF Len(two) = 1 THEN upper_chars(two[1])
               ELSE upper_chars(two[1]) \o upper_chars(two[2]) IN
    IF Len(all) <= 4 THEN all ELSE SubSeq(all, 1, 4)

\* a company of the table has the code
CodeTaken(code) == \E c \in companies : c.company_code = code

\* base followed by the two digits of k
Suffixed(base, k) == base \o <<DigitChars[(k \div 10) + 1], DigitChars[(k % 10) + 1]>>

\* C30 as claimed: the code issued for a company saved without a code is
\* one that no company has: the base if it is free, otherwise the base with
\* the first free suffix 01, 02, ...; and it has 4 to 8 characters.
C30_IssueCode ==
    [][(probe'.op = "company" /\ companies' # companies) =>
        LET base == BaseOf(probe'.name)
            code == probe'.output IN
        /\ ~CodeTaken(code)
        /\ \E c \in companies' \ companies : c.company_code = code
        /\ ~CodeTaken(base) => code = base
        /\ CodeTaken(base)
            => \E k \in 1..MaxCompanies :
                  /\ code = Suffixed(base, k)
                  /\ \A j \in 1..(k - 1) : CodeTaken(Suffixed(base, j))
        /\ Len(code) >= 4
        /\ Len(code) <= 8]_vars

-----------------------------------------------------------------------------
(* C22 *)

\* an Account has the address, letter case ignored
EmailOfAnAccount(email) ==
    \E u \in DOMAIN accounts : lower(accounts[u].email) = lower(email)

\* C22 as claimed: a Submit with the e-mail address of an Account, letter
\* case ignored, is refused with 400, and the address of a stored request
\* is in lowercase.
C22_EmailCaseInsensitive ==
    /\ [][\A p \in Procs :
            (Takes(p, "register") /\ EmailOfAnAccount(arg'[p].email))
            => /\ pc'[p] = "done"
               /\ resp'[p].status = HTTP_400_BAD_REQUEST]_vars
    /\ [](\A i \in 1..Len(requests) : requests[i].email = lower(requests[i].email))

-----------------------------------------------------------------------------
(* C23 *)

\* C23: the Account a successful Decide(approved) stores has the tenant,
\* e-mail address, names, phone number and function of the request, the role
\* manager for the function manager and employee for every other function,
\* and is approved by the deciding caller, with the time of approval set and
\* the e-mail address verified.
C23_ProvisionedAccount ==
    [][\A p \in Procs :
        Approves(p) =>
            LET r == requests[arg[p].registration_id] IN
            \A u \in DOMAIN accounts' \ DOMAIN accounts :
                /\ accounts'[u].company = r.company
                /\ accounts'[u].email = r.email
                /\ accounts'[u].first_name = r.first_name
                /\ accounts'[u].last_name = r.last_name
                /\ accounts'[u].phone = r.phone
                /\ accounts'[u].function = r.function
                /\ r.function = "manager" => accounts'[u].role = "manager"
                /\ r.function # "manager" => accounts'[u].role = "employee"
                /\ accounts'[u].is_approved
                /\ accounts'[u].approved_by = arg[p].caller
                /\ accounts'[u].approved_at # NULL
                /\ accounts'[u].email_verified]_vars

\* a request for the function manager and one for the function server were
\* approved by manager.jill
C23_Witness ==
    /\ \E u \in DOMAIN accounts :
          /\ accounts[u].registration # 0
          /\ accounts[u].function = "manager"
          /\ accounts[u].role = "manager"
          /\ accounts[u].approved_by = 1
    /\ \E u \in DOMAIN accounts :
          /\ accounts[u].registration # 0
          /\ accounts[u].function = "server"
          /\ accounts[u].role = "employee"
          /\ accounts[u].approved_by = 1

-----------------------------------------------------------------------------
(* C24 *)

\* an Account of any tenant has the username
UsernameUsed(name) == \E u \in DOMAIN accounts : accounts[u].username = name

\* firstname.lastname in lowercase, for the applicants of the model
BaseUsername(row) ==
    IF row.first_name = "Bob" THEN "bob.bakker" ELSE "jan.bakker"

\* C24: the username generated for the Account of a Decide(approved) is
\* firstname.lastname in lowercase if no Account of any tenant has it, and
\* otherwise firstname.lastname followed by the smallest k >= 1 that gives
\* an unused name; the Account is stored under that username, and the
\* usernames of the stored Accounts are pairwise distinct.
C24_Username ==
    /\ [][\A p \in Procs :
            /\ (pc[p] = "approve_tx" /\ pc'[p] = "approve_commit")
                => LET base == BaseUsername(requests[arg[p].registration_id]) IN
                   /\ ~UsernameUsed(base) => user'[p].username = base
                   /\ UsernameUsed(base)
                        => \E k \in 1..Cardinality(DOMAIN accounts) :
                              /\ user'[p].username = base \o ToString(k)
                              /\ ~UsernameUsed(base \o ToString(k))
                              /\ \A j \in 1..(k - 1) : UsernameUsed(base \o ToString(j))
            /\ Approves(p)
                => \A u \in DOMAIN accounts' \ DOMAIN accounts :
                      accounts'[u].username = user[p].username]_vars
    /\ [](\A u, v \in DOMAIN accounts :
            accounts[u].username = accounts[v].username => u = v)

\* Jan Bakker was approved at both tenants: the second Account is jan.bakker1
C24_Witness ==
    /\ \E u \in DOMAIN accounts :
          accounts[u].registration # 0 /\ accounts[u].username = "jan.bakker"
    /\ \E u \in DOMAIN accounts :
          accounts[u].registration # 0 /\ accounts[u].username = "jan.bakker1"

-----------------------------------------------------------------------------
(* C25 *)

\* C25 as claimed: the request a successful Submit stores holds the company
\* code as the applicant typed it, and belongs to the company that has the
\* uppercased code.
C25_CodeEnteredAsTyped ==
    [][\A p \in Procs :
        (Ends(p) /\ arg[p].op = "register" /\ resp'[p].status = HTTP_201_CREATED)
        => /\ Len(requests') = Len(requests) + 1
           /\ requests'[Len(requests')].company_code_entered = arg[p].company_code
           /\ requests'[Len(requests')].company = upper(arg[p].company_code)]_vars

-----------------------------------------------------------------------------
(* C29 *)

\* the stored Accounts that a step changes
Changed == {u \in DOMAIN accounts \cap DOMAIN accounts' : accounts'[u] # accounts[u]}

\* C29: a step that changes a stored Account without adding or removing
\* one, which is what a profile update does, changes the Account of the
\* caller only and leaves its id, username, employee number, role, approval
\* and verification flags and its approver as they were; the requests are
\* not touched.
C29_ProfileReadOnly ==
    [][(DOMAIN accounts' = DOMAIN accounts /\ Changed # {}) =>
        /\ \A u \in Changed :
              /\ accounts[u].username = "new.manager"
              /\ accounts'[u].id = accounts[u].id
              /\ accounts'[u].username = accounts[u].username
              /\ accounts'[u].employee_number = accounts[u].employee_number
              /\ accounts'[u].role = accounts[u].role
              /\ accounts'[u].is_approved = accounts[u].is_approved
              /\ accounts'[u].email_verified = accounts[u].email_verified
              /\ accounts'[u].approved_by = accounts[u].approved_by
        /\ Cardinality(Changed) = 1
        /\ requests' = requests]_vars

\* the manager nobody approved sent a body asking for the role owner and for
\* approval: the function and the e-mail address were written, the role and
\* the approval were not
C29_Witness ==
    \E u \in DOMAIN accounts :
        /\ accounts[u].username = "new.manager"
        /\ accounts[u].email = "Ann@x.nl"
        /\ accounts[u].function = "kitchen"
        /\ accounts[u].role = "manager"
        /\ ~accounts[u].is_approved

-----------------------------------------------------------------------------
(* C27 *)

\* the Accounts and the requests of the tenant of an Account
AccountsOfTenant(a) ==
    {u \in DOMAIN accounts : accounts[u].company = accounts[a].company}

RequestsOfTenant(a) ==
    {i \in 1..Len(requests) : requests[i].company = accounts[a].company}

ManagerOrAbove(a) == accounts[a].role \in {"manager", "owner"}

\* C27 as claimed: in the listings of the administration site a superuser
\* sees every Account and every request, a manager or owner exactly the
\* Accounts and the requests of the own tenant, and any other account its
\* own Account and no request.
C27_AdminVisibility ==
    [][\A a \in DOMAIN accounts :
        (probe' # probe /\ probe'.actor = a) =>
            /\ probe'.op = "users" =>
                  probe'.rows = IF accounts[a].is_superuser THEN DOMAIN accounts
                                ELSE IF ManagerOrAbove(a) THEN AccountsOfTenant(a)
                                ELSE {a}
            /\ probe'.op = "requests" =>
                  probe'.rows = IF accounts[a].is_superuser THEN 1..Len(requests)
                                ELSE IF ManagerOrAbove(a) THEN RequestsOfTenant(a)
                                ELSE {}]_vars

-----------------------------------------------------------------------------
(* C28 *)

\* C28: an Account that a manager or owner adds in the administration site
\* is stored approved, with the creator as approver and the time of approval
\* set; an Account that another actor adds is stored unapproved and without
\* approver; and the change of an existing Account leaves its approval, its
\* approver and the time of approval as they were, whoever makes it.
C28_AutoApproval ==
    [][\A a \in DOMAIN accounts :
        /\ (probe'.op = "add" /\ probe'.actor = a /\ DOMAIN accounts' # DOMAIN accounts)
            => \A u \in DOMAIN accounts' \ DOMAIN accounts :
                  /\ ManagerOrAbove(a)
                        => /\ accounts'[u].is_approved
                           /\ accounts'[u].approved_by = a
                           /\ accounts'[u].approved_at # NULL
                  /\ ~ManagerOrAbove(a)
                        => /\ ~accounts'[u].is_approved
                           /\ accounts'[u].approved_by = NULL
                           /\ accounts'[u].approved_at = NULL
        /\ (probe'.op = "change" /\ probe'.actor = a /\ accounts' # accounts)
            => \A u \in DOMAIN accounts :
                  /\ u \in DOMAIN accounts'
                  /\ accounts'[u].is_approved = accounts[u].is_approved
                  /\ accounts'[u].approved_by = accounts[u].approved_by
                  /\ accounts'[u].approved_at = accounts[u].approved_at]_vars

\* the manager nobody approved added an Account, which is approved by it,
\* and then an owner or manager changed the manager's own Account, which is
\* still unapproved
C28_Witness ==
    /\ \E u \in DOMAIN accounts :
          /\ accounts[u].username = "staff.new"
          /\ accounts[u].is_approved
          /\ accounts[u].approved_by # NULL
    /\ probe.op = "change"
    /\ probe.actor \in DOMAIN accounts
    /\ ManagerOrAbove(probe.actor)
    /\ \E t \in probe.rows :
          /\ accounts[t].first_name = "Edited"
          /\ ~accounts[t].is_approved

-----------------------------------------------------------------------------
(* C31 *)

\* an approved Account of the applicant of request i at the request's tenant
HasAccount(i) ==
    \E u \in DOMAIN accounts :
        /\ accounts[u].email = requests[i].email
        /\ accounts[u].company = requests[i].company
        /\ accounts[u].is_approved

\* C31 as claimed: every stored request with status approved has an approved
\* Account with the request's e-mail address at the request's tenant,
\* whether the endpoint or the bulk action "approve_requests" of the
\* administration site approved it.
C31_ApprovedHasAccount ==
    \A i \in 1..Len(requests) : requests[i].status = "approved" => HasAccount(i)

-----------------------------------------------------------------------------
(* C32 *)

\* a form whose fields pass the validators of the single fields
WellFormed(data) == data = Form(data.email, data.company_code)

\* a decided request of the pair is stored
HistoryFor(email, company) ==
    \E i \in 1..Len(requests) :
        /\ requests[i].email = email
        /\ requests[i].company = company
        /\ Terminal(requests[i].status)

\* worker p ends a Submit for a pair that has a decided request
SubmitOnHistory(p) ==
    /\ Ends(p)
    /\ arg'[p].op = "register"
    /\ WellFormed(arg'[p])
    /\ HistoryFor(lower(arg'[p].email), upper(arg'[p].company_code))

OnePerPair ==
    \A i, j \in 1..Len(requests) :
        (/\ requests[i].email = requests[j].email
         /\ requests[i].company = requests[j].company) => i = j

\* an Account is stored with the address as validate_email looks it up
EmailStored(email) ==
    \E u \in DOMAIN accounts : accounts[u].email = lower(email)

-----------------------------------------------------------------------------
(* C33 *)

\* the User rows that an approval provisioned
Provisioned == {u \in DOMAIN accounts : accounts[u].registration # 0}

\* C33 as claimed: no two Accounts provisioned by the workflow have the same
\* e-mail address, also when requests of one address at two tenants are
\* both approved.
C33_ProvisionedEmailUnique ==
    \A u, v \in Provisioned : accounts[u].email = accounts[v].email => u = v

-----------------------------------------------------------------------------
(* C34 *)

\* the sequence numbers that the Accounts of the company carry
NumbersOf(company) ==
    {n \in 1..(Len(SeedUsers) + MaxNewUsers) :
        \E u \in DOMAIN accounts :
            /\ accounts[u].company = company
            /\ accounts[u].employee_number = company \o "-" \o Pad4(n)}

\* an Account of the company that was not its highest-numbered is gone
RemovedBelowHighest(company) ==
    \E n, m \in 1..(Len(SeedUsers) + MaxNewUsers) :
        /\ n < m
        /\ n \notin NumbersOf(company)
        /\ m \in NumbersOf(company)

\* C34 as claimed: after the removal of an Account that was not the
\* highest-numbered of its tenant, a Decide(approved) of an authorized
\* manager on a pending, verified request of the tenant succeeds, and the
\* new Account gets an employee number that no existing Account has.
C34_ApprovalAfterRemoval ==
    [][\A p \in Procs :
        (/\ Ends(p)
         /\ arg[p].op = "approve"
         /\ arg[p].status = "approved"
         /\ pc[p] = "approve_commit"
         /\ RemovedBelowHighest(snap[p].company))
        => /\ resp'[p].status = HTTP_200_OK
           /\ \E u \in DOMAIN accounts' \ DOMAIN accounts :
                 \A v \in DOMAIN accounts :
                     accounts[v].employee_number # accounts'[u].employee_number]_vars

-----------------------------------------------------------------------------
(* C35 *)

\* C35 as claimed: a Verify that finds its request changes the flag
\* email_verified of that request and nothing else: no other field of the
\* request, no other request, no Account; a Verify that finds none changes
\* nothing; and no step sets email_verified of a request back to false.
C35_VerifyFrame ==
    /\ [][\A p \in Procs :
            (Ends(p) /\ arg'[p].op = "verify")
            => /\ accounts' = accounts
               /\ Len(requests') = Len(requests)
               /\ \A i \in 1..Len(requests) :
                     requests'[i] =
                        IF pc[p] = "verify_save" /\ i = snap[p].id
                        THEN [requests[i] EXCEPT !.email_verified = TRUE]
                        ELSE requests[i]]_vars
    /\ [][\A i \in 1..Len(requests) :
            requests[i].email_verified => requests'[i].email_verified]_vars

-----------------------------------------------------------------------------
(* C36 *)

\* a User row was deleted: primary keys are handed out in order
AccountDeleted == DOMAIN accounts # 1..(userSeq - 1)

\* the review fields of a stored request agree with its status
ReviewConsistent(row) ==
    /\ row.status = "pending"
         => /\ row.reviewed_by = NULL
            /\ row.reviewed_at = NULL
            /\ row.rejection_reason = ""
    /\ Terminal(row.status)
         => /\ row.reviewed_at # NULL
            /\ row.reviewed_by # NULL \/ AccountDeleted
    /\ row.status = "rejected" => row.rejection_reason # ""
    /\ row.status = "approved" => row.rejection_reason = ""

\* C36: in every state the review fields of every request agree with its
\* status: pending means no reviewer, no time of review and an empty reason;
\* approved or rejected means a time of review and a reviewer (unless an
\* Account was deleted); rejected means a reason, approved an empty one,
\* whatever reason the body of the approval carried.  A Decide that succeeds
\* stores the decision of its body with the caller as reviewer.
C36_ReviewFields ==
    /\ [](\A i \in 1..Len(requests) : ReviewConsistent(requests[i]))
    /\ [][\A p \in Procs :
            (Ends(p) /\ arg[p].op = "approve" /\ resp'[p].status = HTTP_200_OK)
            => LET id == arg[p].registration_id IN
               /\ requests'[id].status = arg[p].status
               /\ requests'[id].reviewed_by = arg[p].caller
               /\ requests'[id].reviewed_at # NULL]_vars

\* an approval whose body carried a reason was stored, and a rejection
C36_Witness ==
    /\ \E p \in Procs :
          /\ pc[p] = "done"
          /\ arg[p].op = "approve"
          /\ arg[p].status = "approved"
          /\ arg[p].rejection_reason # ""
          /\ resp[p].status = HTTP_200_OK
          /\ requests[arg[p].registration_id].status = "approved"
    /\ \E i \in 1..Len(requests) : requests[i].status = "rejected"

====
